---- MODULE Spec2Model ----
(***************************************************************************)
(* Book API (src/app.js) over the MySQL table `books` (src/database.sql).  *)
(*                                                                         *)
(* Two layers of src/app.js are modelled:                                  *)
(*   - the six route handlers (app.post/get/put/delete, lines 228-316),    *)
(*     each one pool.query statement and one response: specification Spec; *)
(*   - the six promise-chained data functions (insertNewBook ..            *)
(*     findBooksByKeyword, lines 36-226), which take a connection from the *)
(*     pool, query and release: specification FnSpec.                      *)
(* The table is a sequence of rows in insertion order.  Text is a sequence *)
(* of one-character strings so that LIKE can be computed.                  *)
(***************************************************************************)
EXTENDS Integers, Sequences, FiniteSets, TLC

\* Bounds of the model.
MaxTime == 2
MaxInserts == 2
MaxCalls == 2
PoolSize == 2

\* dbConfig.connectionLimit
connectionLimit == 10

-----------------------------------------------------------------------------
(* JavaScript values of a request and SQL values of a column.              *)

Undefined == [type |-> "undefined"]
JsNull == [type |-> "null"]
Str(s) == [type |-> "string", val |-> s]
Num(n) == [type |-> "number", val |-> n]

SqlNull == [type |-> "NULL"]
Varchar(s) == [type |-> "varchar", val |-> s]
SqlInt(n) == [type |-> "int", val |-> n]

\* JavaScript's !v on the values a JSON body field can take.
Not(v) ==
  \/ v.type \in {"undefined", "null"}
  \/ v.type = "string" /\ v.val = <<>>
  \/ v.type = "number" /\ v.val = 0

\* A bound parameter as the statement receives it: undefined and null are
\* sent as NULL, a string as a character literal, a number as a number.
ToSql(v) ==
  CASE v.type \in {"undefined", "null"} -> SqlNull
    [] v.type = "string" -> Varchar(v.val)
    [] v.type = "number" -> SqlInt(v.val)

\* A column of a result row as the driver hands it to JavaScript.
FromSql(c) ==
  CASE c.type = "NULL" -> JsNull
    [] c.type = "varchar" -> Str(c.val)
    [] c.type = "int" -> Num(c.val)

\* The parameter list [title, author, published_year, genre] of a body.
Params(b) == <<ToSql(b.title), ToSql(b.author), ToSql(b.published_year), ToSql(b.genre)>>

-----------------------------------------------------------------------------
(* Inputs.                                                                 *)

Body(t, a, y, g) == [title |-> t, author |-> a, published_year |-> y, genre |-> g]

Bodies ==
  { Body(Str(<<"A", "b">>), Str(<<"c">>), Num(1965), Str(<<"b">>)),
    Body(Str(<<"c">>), Str(<<"A", "b">>), Undefined, Undefined),
    Body(Str(<<>>), Str(<<"c">>), Num(1965), Str(<<"b">>)),
    Body(Undefined, Str(<<"c">>), Undefined, Undefined),
    Body(Str(<<"c">>), Str(<<>>), Num(1965), Undefined),
    Body(Str(<<"c">>), Undefined, Undefined, Str(<<"b">>)) }

NoBody == Body(Undefined, Undefined, Undefined, Undefined)

\* req.query.q of a search request.
Terms ==
  { Undefined, Str(<<>>), Str(<<"a">>), Str(<<"B">>), Str(<<"c">>),
    Str(<<"z">>), Str(<<"_">>) }

\* Ids a request can name: every id the table can hold and one it never holds.
Ids == 1..(MaxInserts + 1)

-----------------------------------------------------------------------------
(* The statements, as MySQL executes them on the table of database.sql.    *)

\* Variant: the INSERT with title and author bound in each other's place.
SqlInsertSwapped(tbl, ai, p, t) ==
  Append(tbl, [id |-> ai, title |-> p[2], author |-> p[1], published_year |-> p[3],
               genre |-> p[4], created_at |-> t, updated_at |-> t])

\* INSERT INTO books (title, author, published_year, genre) VALUES (?,?,?,?)
\* id is AUTO_INCREMENT; created_at and updated_at default to CURRENT_TIMESTAMP.
SqlInsert(tbl, ai, p, t) ==
  Append(tbl, [id |-> ai, title |-> p[1], author |-> p[2], published_year |-> p[3],
               genre |-> p[4], created_at |-> t, updated_at |-> t])

\* title and author are NOT NULL: the statement is rejected for a NULL there.
NotNullViolated(p) == p[1] = SqlNull \/ p[2] = SqlNull

\* The SET of the UPDATE on one row.
\* updated_at is ON UPDATE CURRENT_TIMESTAMP: it is set to the current time
\* when the statement changes a value of the row, and kept when it changes none.
SetRow(r, p, t) ==
  IF <<r.title, r.author, r.published_year, r.genre>> = p
  THEN r
  ELSE [r EXCEPT !.title = p[1], !.author = p[2], !.published_year = p[3],
                 !.genre = p[4], !.updated_at = t]

\* Variant: the UPDATE without its WHERE.
SqlUpdateNoWhere(tbl, id, p, t) == [i \in 1..Len(tbl) |-> SetRow(tbl[i], p, t)]

\* UPDATE books SET title=?, author=?, published_year=?, genre=? WHERE id=?
SqlUpdate(tbl, id, p, t) ==
  [i \in 1..Len(tbl) |-> IF tbl[i].id = id THEN SetRow(tbl[i], p, t) ELSE tbl[i]]

\* Variant: DELETE FROM books WHERE id <= ?
SqlDeleteUpTo(tbl, id) == SelectSeq(tbl, LAMBDA r : r.id > id)

\* DELETE FROM books WHERE id = ?
SqlDelete(tbl, id) == SelectSeq(tbl, LAMBDA r : r.id # id)

\* Variant: every row of the table counted.
AffectedRowsNoWhere(tbl, id) == Len(tbl)

\* affectedRows of the UPDATE and of the DELETE: the rows the WHERE matches
\* (the driver connects with FOUND_ROWS, so an UPDATE counts matched rows).
AffectedRows(tbl, id) == Len(SelectSeq(tbl, LAMBDA r : r.id = id))

\* SELECT ... FROM books WHERE id = ?
SelectById(tbl, id) == SelectSeq(tbl, LAMBDA r : r.id = id)

\* The table's default collation compares text without regard to case.
Lower(c) == IF c = "A" THEN "a" ELSE IF c = "B" THEN "b" ELSE c

\* s LIKE pat: % stands for any run of characters, _ for any one character.
RECURSIVE LikeMatch(_, _)
LikeMatch(s, pat) ==
  IF pat = <<>> THEN s = <<>>
  ELSE IF Head(pat) = "%"
       THEN LikeMatch(s, Tail(pat)) \/ (s # <<>> /\ LikeMatch(Tail(s), pat))
       ELSE /\ s # <<>>
            /\ (Head(pat) = "_" \/ Lower(Head(s)) = Lower(Head(pat)))
            /\ LikeMatch(Tail(s), Tail(pat))

\* column LIKE ?: NULL LIKE anything is not true.
Like(c, pat) == c.type = "varchar" /\ LikeMatch(c.val, pat)

\* `%${q}%`
SearchPattern(q) == <<"%">> \o q.val \o <<"%">>

\* WHERE title LIKE ? OR author LIKE ? OR genre LIKE ?
WhereLike(tbl, pat) ==
  SelectSeq(tbl, LAMBDA r : Like(r.title, pat) \/ Like(r.author, pat) \/ Like(r.genre, pat))

\* The orders in which a SELECT may return the rows it selected.  Without an
\* ORDER BY the order is not defined; ORDER BY created_at DESC defines it up to
\* the order of rows with equal created_at.
Bijections(n) == {p \in [1..n -> 1..n] : \A i, j \in 1..n : i # j => p[i] # p[j]}

AnyOrder(rows) == {[i \in 1..Len(rows) |-> rows[p[i]]] : p \in Bijections(Len(rows))}

\* Variant: ORDER BY created_at ASC.
CreatedAsc(rows) ==
  {s \in AnyOrder(rows) : \A i, j \in 1..Len(s) : i < j => s[i].created_at <= s[j].created_at}

OrderByCreatedDesc(rows) ==
  {s \in AnyOrder(rows) : \A i, j \in 1..Len(s) : i < j => s[i].created_at >= s[j].created_at}

\* A result row as the JSON object of a response.
RowJson(r) ==
  [id |-> r.id, title |-> FromSql(r.title), author |-> FromSql(r.author),
   published_year |-> FromSql(r.published_year), genre |-> FromSql(r.genre),
   created_at |-> r.created_at, updated_at |-> r.updated_at]

RowsJson(rows) == [i \in 1..Len(rows) |-> RowJson(rows[i])]

-----------------------------------------------------------------------------
(* State.                                                                  *)

VARIABLES
  books,    \* the rows of table books, in insertion order
  autoInc,  \* the table's AUTO_INCREMENT counter: the next id
  now,      \* the store's clock, in seconds (TIMESTAMP has no fraction)
  req,      \* the request the last route handler served
  res,      \* its response: status and JSON body
  calls,    \* the data-access calls that handler issued
  prev,     \* the rows of books when that request arrived
  fresh,    \* id -> the body a Create stored, until a PUT or DELETE names the id
  free,     \* connections of the pool conndb that are not taken
  call      \* the calls of the data functions in progress

routeVars == <<req, res, calls, prev, fresh>>
fnVars == <<free, call>>
vars == <<books, autoInc, now, req, res, calls, prev, fresh, free, call>>

\* The callers of the data functions.
Calls == 1..MaxCalls

\* A data function that is not running.
NoCall ==
  [fn |-> "none", id |-> 0, body |-> NoBody, q |-> Undefined, pc |-> "idle",
   outer |-> FALSE, inner |-> FALSE, released |-> 0, failed |-> FALSE,
   resp |-> [success |-> FALSE, message |-> "none"]]

\* The routes.
POST == "POST /api/books"
LIST == "GET /api/books"
SEARCH == "GET /api/books/search"
GET == "GET /api/books/:id"
PUT == "PUT /api/books/:id"
DELETE == "DELETE /api/books/:id"

\* A request, with the store's second in which it is served.
Request(op, id, b, q) == [op |-> op, id |-> id, body |-> b, q |-> q, at |-> now]
Response(status, body) == [status |-> status, body |-> body]
ErrorBody(msg) == [error |-> msg]

Forget(f, id) == [i \in DOMAIN f \ {id} |-> f[i]]

\* No request is being served.
NoRequest == [op |-> "none", id |-> 0, body |-> NoBody, q |-> Undefined, at |-> 0]
NoResponse == Response(0, ErrorBody("none"))
Idle == req = NoRequest

Init ==
  /\ books = <<>>
  /\ autoInc = 1
  /\ now = 0
  /\ req = NoRequest
  /\ res = NoResponse
  /\ calls = 0
  /\ prev = <<>>
  /\ fresh = <<>>
  /\ free = connectionLimit
  /\ call = [c \in Calls |-> NoCall]

\* The store's clock advances.
Tick ==
  /\ Idle
  /\ now < MaxTime
  /\ now' = now + 1
  /\ UNCHANGED <<books, autoInc, req, res, calls, prev, fresh, fnVars>>

-----------------------------------------------------------------------------
(* The route handlers.  Each is one conndb.query and one response; `fail`  *)
(* is the query's promise being rejected by the pool or the store.         *)

\* Variant: if (!title)
TitleMissingOnly(b) == Not(b.title)

\* if (!title || !author)
BadBody(b) == Not(b.title) \/ Not(b.author)

\* app.post('/api/books')
Create(b, fail) ==
  /\ Idle
  /\ UNCHANGED fnVars
  /\ req' = Request(POST, 0, b, Undefined)
  /\ prev' = books
  /\ UNCHANGED now
  /\ IF BadBody(b)
     THEN /\ res' = Response(400, ErrorBody("Title and author required"))
          /\ calls' = 0
          /\ UNCHANGED <<books, autoInc, fresh>>
     ELSE /\ calls' = 1
          /\ IF fail \/ NotNullViolated(Params(b))
             THEN /\ res' = Response(500, ErrorBody("err.message"))
                  /\ UNCHANGED <<books, autoInc, fresh>>
             ELSE /\ autoInc <= MaxInserts
                  /\ books' = SqlInsert(books, autoInc, Params(b), now)
                  /\ autoInc' = autoInc + 1
                  /\ res' = Response(200, [id |-> autoInc, title |-> b.title,
                                           author |-> b.author,
                                           published_year |-> b.published_year,
                                           genre |-> b.genre])
                  /\ fresh' = (autoInc :> b) @@ fresh

\* app.get('/api/books')
ListAll(fail) ==
  /\ Idle
  /\ UNCHANGED fnVars
  /\ req' = Request(LIST, 0, NoBody, Undefined)
  /\ prev' = books
  /\ calls' = 1
  /\ UNCHANGED <<books, autoInc, now, fresh>>
  /\ IF fail
     THEN res' = Response(500, ErrorBody("err.message"))
     ELSE \E rows \in OrderByCreatedDesc(books) : res' = Response(200, RowsJson(rows))

\* app.get('/api/books/search'): the statement has no ORDER BY.
Search(q, fail) ==
  /\ Idle
  /\ UNCHANGED fnVars
  /\ req' = Request(SEARCH, 0, NoBody, q)
  /\ prev' = books
  /\ UNCHANGED <<books, autoInc, now, fresh>>
  /\ IF Not(q)
     THEN /\ res' = Response(400, ErrorBody("Search term required"))
          /\ calls' = 0
     ELSE /\ calls' = 1
          /\ IF fail
             THEN res' = Response(500, ErrorBody("err.message"))
             ELSE \E rows \in AnyOrder(WhereLike(books, SearchPattern(q))) :
                    res' = Response(200, RowsJson(rows))

\* The response of app.get('/api/books/:id') when the query succeeds.
GetByIdResponse(tbl, id) ==
  IF Len(SelectById(tbl, id)) = 0
  THEN Response(404, ErrorBody("Book not found"))
  ELSE Response(200, RowJson(SelectById(tbl, id)[1]))

\* app.get('/api/books/:id')
GetById(id, fail) ==
  /\ Idle
  /\ UNCHANGED fnVars
  /\ req' = Request(GET, id, NoBody, Undefined)
  /\ prev' = books
  /\ calls' = 1
  /\ UNCHANGED <<books, autoInc, now, fresh>>
  /\ res' = IF fail THEN Response(500, ErrorBody("err.message"))
            ELSE GetByIdResponse(books, id)

\* app.put('/api/books/:id')
Update(id, b, fail) ==
  /\ Idle
  /\ UNCHANGED fnVars
  /\ req' = Request(PUT, id, b, Undefined)
  /\ prev' = books
  /\ UNCHANGED <<autoInc, now>>
  /\ IF BadBody(b)
     THEN /\ res' = Response(400, ErrorBody("Title and author required"))
          /\ calls' = 0
          /\ UNCHANGED <<books, fresh>>
     ELSE /\ calls' = 1
          /\ IF fail \/ NotNullViolated(Params(b))
             THEN /\ res' = Response(500, ErrorBody("err.message"))
                  /\ UNCHANGED <<books, fresh>>
             ELSE /\ books' = SqlUpdate(books, id, Params(b), now)
                  /\ fresh' = Forget(fresh, id)
                  /\ res' = IF AffectedRows(books, id) = 0
                            THEN Response(404, ErrorBody("Book not found"))
                            ELSE Response(200, [id |-> id, title |-> b.title,
                                                author |-> b.author,
                                                published_year |-> b.published_year,
                                                genre |-> b.genre])

\* app.delete('/api/books/:id')
Delete(id, fail) ==
  /\ Idle
  /\ UNCHANGED fnVars
  /\ req' = Request(DELETE, id, NoBody, Undefined)
  /\ prev' = books
  /\ calls' = 1
  /\ UNCHANGED <<autoInc, now>>
  /\ IF fail
     THEN /\ res' = Response(500, ErrorBody("err.message"))
          /\ UNCHANGED <<books, fresh>>
     ELSE /\ books' = SqlDelete(books, id)
          /\ fresh' = Forget(fresh, id)
          /\ res' = IF AffectedRows(books, id) = 0
                    THEN Response(404, ErrorBody("Book not found"))
                    ELSE Response(200, [message |-> "Book deleted"])

\* The response has been sent: the request is over.
Respond ==
  /\ ~Idle
  /\ req' = NoRequest
  /\ res' = NoResponse
  /\ calls' = 0
  /\ prev' = <<>>
  /\ UNCHANGED <<books, autoInc, now, fresh, fnVars>>

Next ==
  \/ Tick
  \/ Respond
  \/ \E b \in Bodies, fail \in BOOLEAN : Create(b, fail)
  \/ \E fail \in BOOLEAN : ListAll(fail)
  \/ \E q \in Terms, fail \in BOOLEAN : Search(q, fail)
  \/ \E id \in Ids, fail \in BOOLEAN : GetById(id, fail)
  \/ \E id \in Ids, b \in Bodies, fail \in BOOLEAN : Update(id, b, fail)
  \/ \E id \in Ids, fail \in BOOLEAN : Delete(id, fail)

Spec == Init /\ [][Next]_vars

-----------------------------------------------------------------------------
(* The data functions insertNewBook .. findBooksByKeyword.  Each takes a   *)
(* connection with conndb.getConnection(), queries on it and releases it;  *)
(* modifyBookById and removeBookById call fetchBookById, which takes a     *)
(* second connection, while they hold theirs.  A step is one settled       *)
(* promise together with the then or catch callback that it runs.  The     *)
(* functions read what conn.query resolves with as the statement's rows    *)
(* or result header (books.length, result.affectedRows); so do these       *)
(* definitions.                                                            *)

\* The envelopes the functions resolve with.
Envelope(message, data) == [success |-> TRUE, message |-> message, data |-> data]
NotFoundEnvelope == [success |-> FALSE, message |-> "Book not found", data |-> JsNull]
ErrorEnvelope(message) == [success |-> FALSE, message |-> message, error |-> "err.message"]

\* The arguments the callers pass.
FnBodies ==
  { Body(Str(<<"A", "b">>), Str(<<"c">>), Num(1965), Str(<<"b">>)),
    Body(Str(<<"c">>), Str(<<"A", "b">>), Undefined, Undefined),
    Body(Undefined, Str(<<"c">>), Undefined, Undefined) }

FnIds == 1..MaxInserts

FnTerms == {Str(<<"a">>), Str(<<"z">>)}

FnArgs ==
  {[fn |-> "insertNewBook", id |-> 0, body |-> b, q |-> Undefined] : b \in FnBodies}
    \cup {[fn |-> "fetchAllBooks", id |-> 0, body |-> NoBody, q |-> Undefined]}
    \cup {[fn |-> "fetchBookById", id |-> i, body |-> NoBody, q |-> Undefined] : i \in FnIds}
    \cup {[fn |-> "modifyBookById", id |-> i, body |-> b, q |-> Undefined] :
            i \in FnIds, b \in FnBodies}
    \cup {[fn |-> "removeBookById", id |-> i, body |-> NoBody, q |-> Undefined] : i \in FnIds}
    \cup {[fn |-> "findBooksByKeyword", id |-> 0, body |-> NoBody, q |-> t] : t \in FnTerms}

\* The message of each function's catch callback.
CatchMessage(fn) ==
  CASE fn = "insertNewBook" -> "Error creating book"
    [] fn = "fetchAllBooks" -> "Error fetching books"
    [] fn = "fetchBookById" -> "Error fetching book"
    [] fn = "modifyBookById" -> "Error updating book"
    [] fn = "removeBookById" -> "Error deleting book"
    [] fn = "findBooksByKeyword" -> "Error searching books"

\* Variant: the callback returns its envelope without conn.release().
ResolveWithoutRelease(k, resp, failedNow) ==
  [k EXCEPT !.pc = "done", !.failed = @ \/ failedNow, !.resp = resp]

\* conn.release() on the function's own connection, and the envelope it
\* resolves with.
Resolve(k, resp, failedNow) ==
  [k EXCEPT !.pc = "done", !.outer = FALSE, !.released = @ + 1,
            !.failed = @ \/ failedNow, !.resp = resp]

\* A caller calls one of the functions: it calls conndb.getConnection().
Invoke(c) ==
  /\ call[c].pc = "idle"
  /\ \E a \in FnArgs :
       call' = [call EXCEPT ![c] = [NoCall EXCEPT !.fn = a.fn, !.id = a.id,
                                                  !.body = a.body, !.q = a.q,
                                                  !.pc = "getConnection"]]
  /\ UNCHANGED <<books, autoInc, now, routeVars, free>>

\* getConnection() resolves with a connection of the pool.
GetConnection(c) ==
  /\ call[c].pc = "getConnection"
  /\ free > 0
  /\ free' = free - 1
  /\ call' = [call EXCEPT ![c].outer = TRUE,
                          ![c].pc = IF call[c].fn = "removeBookById"
                                    THEN "inner_getConnection" ELSE "query"]
  /\ UNCHANGED <<books, autoInc, now, routeVars>>

\* getConnection() rejects: the chain conndb.getConnection().then(...) has no
\* catch, so the promise the function returned rejects.
GetConnectionFails(c) ==
  /\ call[c].pc = "getConnection"
  /\ call' = [call EXCEPT ![c].pc = "rejected", ![c].failed = TRUE]
  /\ UNCHANGED <<books, autoInc, now, routeVars, free>>

\* The response of fetchBookById when its query succeeds.
FetchResponse(tbl, id) ==
  IF Len(SelectById(tbl, id)) = 0
  THEN NotFoundEnvelope
  ELSE Envelope("Book retrieved successfully", RowJson(SelectById(tbl, id)[1]))

\* insertNewBook: conn.query(INSERT) and its then / catch.
InsertQuery(c, fail) ==
  /\ call[c].pc = "query" /\ call[c].fn = "insertNewBook"
  /\ free' = free + 1
  /\ UNCHANGED <<now, routeVars>>
  /\ IF fail \/ NotNullViolated(Params(call[c].body))
     THEN /\ call' = [call EXCEPT ![c] = Resolve(@, ErrorEnvelope(CatchMessage(@.fn)), TRUE)]
          /\ UNCHANGED <<books, autoInc>>
     ELSE /\ autoInc <= MaxInserts
          /\ books' = SqlInsert(books, autoInc, Params(call[c].body), now)
          /\ autoInc' = autoInc + 1
          /\ call' = [call EXCEPT ![c] =
               Resolve(@, Envelope("Book created successfully",
                                   [id |-> autoInc, title |-> @.body.title,
                                    author |-> @.body.author,
                                    published_year |-> @.body.published_year,
                                    genre |-> @.body.genre,
                                    created_at |-> now, updated_at |-> now]), FALSE)]

\* fetchAllBooks, fetchBookById (called directly), findBooksByKeyword:
\* conn.query(SELECT) and its then / catch.
SelectQuery(c, fail) ==
  /\ call[c].pc = "query"
  /\ call[c].fn \in {"fetchAllBooks", "fetchBookById", "findBooksByKeyword"}
  /\ free' = free + 1
  /\ UNCHANGED <<books, autoInc, now, routeVars>>
  /\ IF fail
     THEN call' = [call EXCEPT ![c] = Resolve(@, ErrorEnvelope(CatchMessage(@.fn)), TRUE)]
     ELSE CASE call[c].fn = "fetchAllBooks" ->
                 \E rows \in OrderByCreatedDesc(books) :
                   call' = [call EXCEPT ![c] =
                     Resolve(@, [success |-> TRUE, message |-> "Books retrieved successfully",
                                 count |-> Len(rows), data |-> RowsJson(rows)], FALSE)]
            [] call[c].fn = "fetchBookById" ->
                 call' = [call EXCEPT ![c] = Resolve(@, FetchResponse(books, @.id), FALSE)]
            [] call[c].fn = "findBooksByKeyword" ->
                 \E rows \in OrderByCreatedDesc(WhereLike(books, SearchPattern(call[c].q))) :
                   call' = [call EXCEPT ![c] =
                     Resolve(@, [success |-> TRUE, message |-> "Search completed successfully",
                                 count |-> Len(rows), searchTerm |-> @.q,
                                 data |-> RowsJson(rows)], FALSE)]

\* modifyBookById: conn.query(UPDATE) and its then / catch; with a row
\* affected it goes on to call fetchBookById(id).
UpdateQuery(c, fail) ==
  /\ call[c].pc = "query" /\ call[c].fn = "modifyBookById"
  /\ UNCHANGED <<autoInc, now, routeVars>>
  /\ IF fail \/ NotNullViolated(Params(call[c].body))
     THEN /\ call' = [call EXCEPT ![c] = Resolve(@, ErrorEnvelope(CatchMessage(@.fn)), TRUE)]
          /\ free' = free + 1
          /\ UNCHANGED books
     ELSE /\ books' = SqlUpdate(books, call[c].id, Params(call[c].body), now)
          /\ IF AffectedRows(books, call[c].id) = 0
             THEN /\ call' = [call EXCEPT ![c] = Resolve(@, NotFoundEnvelope, FALSE)]
                  /\ free' = free + 1
             ELSE /\ call' = [call EXCEPT ![c].pc = "inner_getConnection"]
                  /\ UNCHANGED free

\* fetchBookById called by modifyBookById or removeBookById: its
\* getConnection() resolves with a second connection.
InnerGetConnection(c) ==
  /\ call[c].pc = "inner_getConnection"
  /\ free > 0
  /\ free' = free - 1
  /\ call' = [call EXCEPT ![c].inner = TRUE, ![c].pc = "inner_query"]
  /\ UNCHANGED <<books, autoInc, now, routeVars>>

\* ... or rejects: fetchBookById(id) rejects, and the caller's catch releases
\* the caller's connection and resolves with the caller's error envelope.
InnerGetConnectionFails(c) ==
  /\ call[c].pc = "inner_getConnection"
  /\ call' = [call EXCEPT ![c] = Resolve(@, ErrorEnvelope(CatchMessage(@.fn)), TRUE)]
  /\ free' = free + 1
  /\ UNCHANGED <<books, autoInc, now, routeVars>>

\* fetchBookById's query and its then / catch (it releases the second
\* connection), and the caller's then on the response: modifyBookById releases
\* and resolves with it; removeBookById does so when it is not a success and
\* goes on to the DELETE when it is.
InnerQuery(c, fail) ==
  /\ call[c].pc = "inner_query"
  /\ UNCHANGED <<books, autoInc, now, routeVars>>
  /\ LET response == IF fail THEN ErrorEnvelope(CatchMessage("fetchBookById"))
                     ELSE FetchResponse(books, call[c].id)
     IN IF call[c].fn = "modifyBookById" \/ ~response.success
        THEN /\ call' = [call EXCEPT ![c] = [Resolve(@, response, fail) EXCEPT !.inner = FALSE]]
             /\ free' = free + 2
        ELSE /\ call' = [call EXCEPT ![c].inner = FALSE, ![c].resp = response,
                                     ![c].pc = "delete"]
             /\ free' = free + 1

\* removeBookById: conn.query(DELETE) and its then, or the catch.
DeleteQuery(c, fail) ==
  /\ call[c].pc = "delete"
  /\ free' = free + 1
  /\ UNCHANGED <<autoInc, now, routeVars>>
  /\ IF fail
     THEN /\ call' = [call EXCEPT ![c] = Resolve(@, ErrorEnvelope(CatchMessage(@.fn)), TRUE)]
          /\ UNCHANGED books
     ELSE /\ books' = SqlDelete(books, call[c].id)
          /\ call' = [call EXCEPT ![c] =
               Resolve(@, Envelope("Book deleted successfully", @.resp.data), FALSE)]

\* The caller has the outcome of the promise; it may call again.
Settle(c) ==
  /\ call[c].pc \in {"done", "rejected"}
  /\ call' = [call EXCEPT ![c] = NoCall]
  /\ UNCHANGED <<books, autoInc, now, routeVars, free>>

FnNext ==
  \/ Tick
  \/ \E c \in Calls : Invoke(c)
  \/ \E c \in Calls : GetConnection(c)
  \/ \E c \in Calls : GetConnectionFails(c)
  \/ \E c \in Calls, fail \in BOOLEAN : InsertQuery(c, fail)
  \/ \E c \in Calls, fail \in BOOLEAN : SelectQuery(c, fail)
  \/ \E c \in Calls, fail \in BOOLEAN : UpdateQuery(c, fail)
  \/ \E c \in Calls : InnerGetConnection(c)
  \/ \E c \in Calls : InnerGetConnectionFails(c)
  \/ \E c \in Calls, fail \in BOOLEAN : InnerQuery(c, fail)
  \/ \E c \in Calls, fail \in BOOLEAN : DeleteQuery(c, fail)
  \/ \E c \in Calls : Settle(c)

FnSpec == Init /\ [][FnNext]_vars

-----------------------------------------------------------------------------
(* The data functions on a pool that their callers can exhaust.            *)
(* waitForConnections: true with queueLimit: 0 makes getConnection() wait, *)
(* without bound, for a released connection when none is free.  The pool   *)
(* is scaled from connectionLimit to PoolSize connections, for as many     *)
(* callers; acquisitions never reject and queries are always answered.     *)

PoolInit ==
  /\ books = <<>>
  /\ autoInc = 1
  /\ now = 0
  /\ req = NoRequest
  /\ res = NoResponse
  /\ calls = 0
  /\ prev = <<>>
  /\ fresh = <<>>
  /\ free = PoolSize
  /\ call = [c \in Calls |-> NoCall]

PoolNext ==
  \/ \E c \in Calls : Invoke(c)
  \/ \E c \in Calls : GetConnection(c)
  \/ \E c \in Calls : InsertQuery(c, FALSE)
  \/ \E c \in Calls : SelectQuery(c, FALSE)
  \/ \E c \in Calls : UpdateQuery(c, FALSE)
  \/ \E c \in Calls : InnerGetConnection(c)
  \/ \E c \in Calls : InnerQuery(c, FALSE)
  \/ \E c \in Calls : DeleteQuery(c, FALSE)
  \/ \E c \in Calls : Settle(c)

PoolSpec == PoolInit /\ [][PoolNext]_vars

-----------------------------------------------------------------------------
(* Vocabulary of the properties.                                           *)

\* A field that the request omits, or submits as null or as the empty text.
MissingOrEmpty(v) == v = Undefined \/ v = JsNull \/ v = Str(<<>>)

\* What a submitted field reads back as: an omitted field reads back as null.
ReadBack(v) == IF v = Undefined THEN JsNull ELSE v

Exists(tbl, id) == \E i \in 1..Len(tbl) : tbl[i].id = id
RowOf(tbl, id) == tbl[CHOOSE i \in 1..Len(tbl) : tbl[i].id = id]
PosOf(tbl, id) == CHOOSE i \in 1..Len(tbl) : tbl[i].id = id
Range(s) == {s[i] : i \in 1..Len(s)}

\* The request reached the store and the store answered.
StoreAnswered == res.status # 500

\* C1: Create and Update with a missing or empty title or author answer 400,
\* issue no data-access call and leave the stored books as they were.
C1_InvalidBodyRejected ==
  (/\ req.op \in {POST, PUT}
   /\ (MissingOrEmpty(req.body.title) \/ MissingOrEmpty(req.body.author)))
  => (res.status = 400 /\ calls = 0 /\ books = prev)

C1_Witness ==
  /\ req.op = PUT
  /\ MissingOrEmpty(req.body.author)
  /\ ~MissingOrEmpty(req.body.title)
  /\ Exists(prev, req.id)
  /\ res.status = 400

\* C2: GetById on an id that a successful Create returned, with no Update or
\* Delete of that id since, yields the submitted title, author, published_year
\* and genre (an omitted one as null) and created_at equal to updated_at.
C2_CreateThenGetById ==
  (req.op = GET /\ req.id \in DOMAIN fresh /\ StoreAnswered)
  => (/\ res.status = 200
      /\ res.body.id = req.id
      /\ res.body.title = fresh[req.id].title
      /\ res.body.author = fresh[req.id].author
      /\ res.body.published_year = ReadBack(fresh[req.id].published_year)
      /\ res.body.genre = ReadBack(fresh[req.id].genre)
      /\ res.body.created_at = res.body.updated_at)

C2_Witness ==
  /\ req.op = GET
  /\ req.id \in DOMAIN fresh
  /\ res.status = 200
  /\ fresh[req.id].published_year # Undefined
  /\ Len(books) > 1
  /\ now > res.body.created_at

\* C3: Delete of an existing id answers 200 and removes that row and no other,
\* after which GetById of the id answers 404; Delete of an id with no row
\* answers 404 and leaves the store as it was.
C3_DeleteRemovesExactlyThatRow ==
  (req.op = DELETE /\ StoreAnswered)
  => IF Exists(prev, req.id)
     THEN /\ res.status = 200
          /\ ~Exists(books, req.id)
          /\ Len(books) = Len(prev) - 1
          /\ \A i \in 1..Len(prev) : prev[i].id # req.id => prev[i] \in Range(books)
          /\ GetByIdResponse(books, req.id).status = 404
     ELSE res.status = 404 /\ books = prev

C3_Witness ==
  /\ req.op = DELETE
  /\ res.status = 200
  /\ Len(prev) = 2
  /\ Len(books) = 1

\* The frame of a successful Update: the row has the four submitted values
\* (an omitted one as NULL), the id and created_at it had, and every other
\* row is as it was.
UpdateFrame ==
  /\ Exists(prev, req.id) /\ Exists(books, req.id)
  /\ Len(books) = Len(prev)
  /\ \A i \in 1..Len(prev) :
       IF prev[i].id # req.id
       THEN books[i] = prev[i]
       ELSE /\ books[i].id = prev[i].id
            /\ books[i].created_at = prev[i].created_at
            /\ FromSql(books[i].title) = req.body.title
            /\ FromSql(books[i].author) = req.body.author
            /\ FromSql(books[i].published_year) = ReadBack(req.body.published_year)
            /\ FromSql(books[i].genre) = ReadBack(req.body.genre)

SameValues(r1, r2) ==
  /\ r1.title = r2.title
  /\ r1.author = r2.author
  /\ r1.published_year = r2.published_year
  /\ r1.genre = r2.genre

\* C4 as stated: a successful Update moves updated_at strictly forward.
C4_UpdatedAtStrictlyForward ==
  (req.op = PUT /\ res.status = 200)
  => (/\ UpdateFrame
      /\ RowOf(books, req.id).updated_at > RowOf(prev, req.id).updated_at)

\* C4, amended: a successful Update overwrites the four editable fields of the
\* row, keeps its id and created_at and every other row; updated_at never
\* moves back: it becomes the store's current second when a value of the row
\* changes, and stays as it was when the submitted values are the stored ones.
C4_UpdateFrameAndTimestamp ==
  (req.op = PUT /\ res.status = 200)
  => (/\ UpdateFrame
      /\ RowOf(books, req.id).updated_at >= RowOf(prev, req.id).updated_at
      /\ IF SameValues(RowOf(books, req.id), RowOf(prev, req.id))
         THEN RowOf(books, req.id).updated_at = RowOf(prev, req.id).updated_at
         ELSE RowOf(books, req.id).updated_at = req.at)

C4_Witness ==
  /\ req.op = PUT
  /\ res.status = 200
  /\ req.body.genre = Undefined
  /\ RowOf(prev, req.id).genre # SqlNull
  /\ RowOf(books, req.id).genre = SqlNull
  /\ RowOf(books, req.id).updated_at > RowOf(books, req.id).created_at
  /\ Len(books) = 2

\* C5 as stated: GetById and Update on an id with no row always answer 404
\* (when the store answers at all) and leave the store as it was.
C5_NoRowAlways404 ==
  (req.op \in {GET, PUT} /\ ~Exists(prev, req.id) /\ StoreAnswered)
  => (res = Response(404, ErrorBody("Book not found")) /\ books = prev)

\* C5, amended: GetById, and Update with a non-empty title and author, on an
\* id with no row answer 404 with no book data; Update with a missing or empty
\* title or author answers 400 there; in every case the store is as it was.
C5_NoRowNotFound ==
  (req.op \in {GET, PUT} /\ ~Exists(prev, req.id))
  => (/\ books = prev
      /\ StoreAnswered =>
           IF req.op = PUT /\ (MissingOrEmpty(req.body.title) \/ MissingOrEmpty(req.body.author))
           THEN res.status = 400
           ELSE res = Response(404, ErrorBody("Book not found")))

C5_Witness ==
  /\ req.op = PUT
  /\ ~Exists(prev, req.id)
  /\ Len(prev) > 0
  /\ res.status = 404

\* t occurs in s, letters compared without regard to case.
Contains(s, t) ==
  \E i \in 1..(Len(s) - Len(t) + 1) :
    \A k \in 1..Len(t) : Lower(s[i + k - 1]) = Lower(t[k])

FieldContains(c, t) == c.type = "varchar" /\ Contains(c.val, t)

Matches(r, t) ==
  FieldContains(r.title, t) \/ FieldContains(r.author, t) \/ FieldContains(r.genre, t)

CreatedDescending(body) ==
  \A i, j \in 1..Len(body) : i < j => body[i].created_at >= body[j].created_at

\* The term has none of the characters % and _, which LIKE reads as wildcards
\* and the handler passes on as they are.
PlainTerm(t) == \A k \in 1..Len(t) : t[k] \notin {"%", "_"}

\* C6: Search with a non-empty term (here: one without a LIKE wildcard)
\* answers 200 with exactly the stored books whose title, author or genre
\* contains the term without regard to case, ordered by created_at descending
\* (none matching: 200 with no book).
C6_SearchExactAndOrdered ==
  (req.op = SEARCH /\ ~MissingOrEmpty(req.q) /\ PlainTerm(req.q.val) /\ StoreAnswered)
  => (/\ res.status = 200
      /\ Range(res.body) = {RowJson(r) : r \in {x \in Range(prev) : Matches(x, req.q.val)}}
      /\ Len(res.body) = Cardinality(Range(res.body))
      /\ CreatedDescending(res.body))

\* C7 as stated: ListAll returns the stored books by created_at descending,
\* books of equal created_at in insertion order.
C7_ListTiesInInsertionOrder ==
  (req.op = LIST /\ StoreAnswered)
  => (/\ res.status = 200
      /\ Range(res.body) = Range(RowsJson(prev))
      /\ Len(res.body) = Len(prev)
      /\ CreatedDescending(res.body)
      /\ \A i, j \in 1..Len(res.body) :
           (i < j /\ res.body[i].created_at = res.body[j].created_at)
           => PosOf(prev, res.body[i].id) < PosOf(prev, res.body[j].id))

\* C7, amended: ListAll returns every stored book and no other, each once, by
\* created_at descending (books of equal created_at in no particular order);
\* on an empty store it answers 200 with no book.
C7_ListAllByCreatedDesc ==
  (req.op = LIST /\ StoreAnswered)
  => (/\ res.status = 200
      /\ Range(res.body) = Range(RowsJson(prev))
      /\ Len(res.body) = Len(prev)
      /\ CreatedDescending(res.body))

C7_Witness ==
  /\ req.op = LIST
  /\ res.status = 200
  /\ Len(res.body) = 2
  /\ res.body[1].created_at > res.body[2].created_at

\* C8: a successful Delete returns the book as it was stored before it.
C8_DeleteReturnsRecord ==
  (req.op = DELETE /\ res.status = 200)
  => res.body = RowJson(RowOf(prev, req.id))

\* C9: every failure of a data-access call (getConnection or query) in a data
\* function ends in a failure envelope; none leaves the function as a rejected
\* promise.
C9_StoreFailuresCaught ==
  \A c \in Calls :
    /\ call[c].pc # "rejected"
    /\ (call[c].pc = "done" /\ call[c].failed) => ~call[c].resp.success

\* C10: every stored book has a non-empty title and a non-empty author, and
\* no two stored books share an id.
C10_StoredBooksValid ==
  /\ \A i \in 1..Len(books) :
       /\ books[i].title.type = "varchar" /\ books[i].title.val # <<>>
       /\ books[i].author.type = "varchar" /\ books[i].author.val # <<>>
  /\ \A i, j \in 1..Len(books) : i # j => books[i].id # books[j].id

C10_Witness ==
  /\ Len(books) = 1
  /\ Len(prev) = 1
  /\ autoInc = 3
  /\ req.op = PUT
  /\ res.status = 200

\* The connections a call holds: its own, and the one of the fetchBookById
\* it called.
Holds(c) == (IF call[c].outer THEN 1 ELSE 0) + (IF call[c].inner THEN 1 ELSE 0)

RECURSIVE HeldBy(_)
HeldBy(cs) ==
  IF cs = {} THEN 0
  ELSE LET c == CHOOSE x \in cs : TRUE IN Holds(c) + HeldBy(cs \ {c})

\* C11: a data function that took a connection has released it exactly once
\* when it resolves, on the success and on the failure paths: it holds none
\* then, it never released twice, it released nothing while it still holds
\* its connection, and the pool's free connections and the held ones add up
\* to the pool's capacity.
C11_ReleasedExactlyOnce ==
  /\ free + HeldBy(Calls) = connectionLimit
  /\ \A c \in Calls :
       /\ call[c].released <= 1
       /\ call[c].outer => call[c].released = 0
       /\ call[c].inner => call[c].outer
       /\ call[c].pc = "done" => call[c].released = 1 /\ Holds(c) = 0
       /\ call[c].pc = "rejected" => call[c].released = 0 /\ Holds(c) = 0

\* A removeBookById resolved on a failure path while a modifyBookById
\* resolved with the row it fetched on a second connection.
C11_Witness ==
  \E c, d \in Calls :
    /\ call[c].pc = "done" /\ call[c].fn = "removeBookById"
    /\ call[c].failed /\ call[c].released = 1
    /\ call[d].pc = "done" /\ call[d].fn = "modifyBookById"
    /\ call[d].resp.success /\ call[d].released = 1

\* The call is under way: it has not resolved or rejected yet.
InProgress(c) == call[c].pc \notin {"idle", "done", "rejected"}

\* The call's next step can happen: its query is answered, or the pool has a
\* free connection for its getConnection().
CanStep(c) ==
  \/ call[c].pc \in {"query", "inner_query", "delete"}
  \/ call[c].pc \in {"getConnection", "inner_getConnection"} /\ free > 0

\* C12: concurrent calls of the data functions never wait on each other
\* forever: while a call is under way, some call under way can take its next
\* step, so every call completes and the pool gets its connections back.
C12_CallsNeverWaitForever ==
  (\E c \in Calls : InProgress(c)) => (\E c \in Calls : CanStep(c))

\* The call was a removeBookById and reported that it deleted the book.
DeleteSucceeded(c) ==
  /\ call[c].pc = "done"
  /\ call[c].fn = "removeBookById"
  /\ call[c].resp.success

\* C13: of the concurrent deletes of one id at most one reports success (ids
\* are never reused, so a second success is a success for a row that another
\* delete already removed).
C13_OneDeleteSucceeds ==
  \A c, d \in Calls :
    (c # d /\ DeleteSucceeded(c) /\ DeleteSucceeded(d)) => call[c].id # call[d].id

====
